---- MODULE Spec2Model ----
(***************************************************************************)
(* The calculator of moz-sec/calculator: the state of the Calculator       *)
(* component (the four fields of the calculation and lastPressedButton)    *)
(* and its six handlers, with the number <-> text conversions the handlers *)
(* go through (Number.parseFloat, String) and the arithmetic of calculate, *)
(* which lives in lib/calculatorEngine and is taken to be the +, -, *, /   *)
(* of IEEE-754 doubles.  The arithmetic here is exact decimal arithmetic;  *)
(* the user of the model asks only for the calculations on which it is the *)
(* arithmetic of doubles (Representable).                                  *)
(*                                                                         *)
(* Text is a sequence of one-character strings.  A number is a record      *)
(*   [k, neg, c, e]   k \in {"fin", "inf", "nan", "null"}                  *)
(* A finite number is (-1)^neg * c * 10^e, c a sequence of decimal digits, *)
(* most significant first, without leading or trailing zeros (zero is      *)
(* c = <<>>, e = 0, and keeps its sign as an IEEE-754 zero does).  A       *)
(* double is represented by the shortest decimal that reads back as it,    *)
(* which is the decimal String prints.                                     *)
(***************************************************************************)
EXTENDS Integers, Sequences, FiniteSets, TLC

(***************************************************************************)
(* Natural numbers as digit sequences, least significant digit first,      *)
(* no high zeros (0 is <<>>).  TLC's integers are 32 bits wide and the     *)
(* calculator's operands have up to 15 digits.                             *)
(***************************************************************************)
Max(m, n) == IF m >= n THEN m ELSE n

Min(m, n) == IF m <= n THEN m ELSE n

MaxOf(S) == CHOOSE m \in S : \A j \in S : j <= m

MinOf(S) == CHOOSE m \in S : \A j \in S : m <= j

Reverse(s) == [i \in 1..Len(s) |-> s[Len(s) + 1 - i]]

Zeros(n) == [i \in 1..n |-> 0]

\* digit i of a, 0 above its length
DigitAt(a, i) == IF i <= Len(a) THEN a[i] ELSE 0

NonZero(a) == {i \in 1..Len(a) : a[i] # 0}

StripHigh(a) ==
    IF NonZero(a) = {} THEN <<>> ELSE SubSeq(a, 1, MaxOf(NonZero(a)))

\* the number of low zeros of a
LowZeros(a) == IF NonZero(a) = {} THEN Len(a) ELSE MinOf(NonZero(a)) - 1

\* the carry into digit i of a + b: some lower digit pair overflows and
\* every pair between it and i passes the carry on
CarryInto(a, b, i) ==
    \E j \in 1..(i - 1) :
        /\ DigitAt(a, j) + DigitAt(b, j) >= 10
        /\ \A m \in (j + 1)..(i - 1) : DigitAt(a, m) + DigitAt(b, m) = 9

NatAdd(a, b) ==
    StripHigh([i \in 1..(Max(Len(a), Len(b)) + 1) |->
        (DigitAt(a, i) + DigitAt(b, i)
            + (IF CarryInto(a, b, i) THEN 1 ELSE 0)) % 10])

\* the borrow from digit i of a - b
BorrowFrom(a, b, i) ==
    \E j \in 1..(i - 1) :
        /\ DigitAt(a, j) < DigitAt(b, j)
        /\ \A m \in (j + 1)..(i - 1) : DigitAt(a, m) = DigitAt(b, m)

\* a - b for a >= b
NatSub(a, b) ==
    StripHigh([i \in 1..Len(a) |->
        (10 + DigitAt(a, i) - DigitAt(b, i)
            - (IF BorrowFrom(a, b, i) THEN 1 ELSE 0)) % 10])

\* -1, 0, 1 as a < b, a = b, a > b
NatCmp(a, b) ==
    LET differ == {i \in 1..Len(a) : a[i] # DigitAt(b, i)}
    IN  IF Len(a) < Len(b) THEN -1
        ELSE IF Len(a) > Len(b) THEN 1
        ELSE IF differ = {} THEN 0
        ELSE IF a[MaxOf(differ)] < b[MaxOf(differ)] THEN -1
        ELSE 1

\* a * 10^n
NatShift(a, n) == IF a = <<>> THEN <<>> ELSE Zeros(n) \o a

RECURSIVE ColumnSum(_, _, _, _)
\* the sum of a[i] * b[k + 1 - i] over i in 1..n: column k of the
\* schoolbook product, at most 16 * 81 for the operands of this model
ColumnSum(a, b, k, n) ==
    IF n = 0 THEN 0
    ELSE DigitAt(a, n) * (IF k + 1 - n >= 1 THEN DigitAt(b, k + 1 - n) ELSE 0)
            + ColumnSum(a, b, k, n - 1)

\* a * b: the columns' units, tens, hundreds and thousands, added up
NatMul(a, b) ==
    LET n    == Len(a) + Len(b)
        cols == SubSeq([k \in 1..n |-> ColumnSum(a, b, k, Len(a))], 1, n)
        part(p) == StripHigh(SubSeq([k \in 1..n |-> (cols[k] \div p) % 10], 1, n))
    IN  NatAdd(NatAdd(part(1), NatShift(part(10), 1)),
               NatAdd(NatShift(part(100), 2), NatShift(part(1000), 3)))

\* the digits of an integer n >= 0 that TLC's integers hold
NatOfInt(n) ==
    LET len == Cardinality({k \in 0..9 : 10 ^ k <= n})
    IN  [i \in 1..len |-> (n \div (10 ^ (i - 1))) % 10]

\* d^n for n <= 26, in factors that TLC's integers hold (5^13 < 2^31)
NatPow(d, n) ==
    IF n <= 13 THEN NatOfInt(d ^ n)
    ELSE NatMul(NatOfInt(d ^ 13), NatOfInt(d ^ (n - 13)))

RECURSIVE QuotDigit(_, _, _)
\* the largest q with q * b <= r, r < 10 * b, counted up from q
QuotDigit(r, b, q) ==
    IF NatCmp(r, b) < 0 THEN [q |-> q, r |-> r]
    ELSE QuotDigit(NatSub(r, b), b, q + 1)

RECURSIVE LongDiv(_, _, _, _)
\* schoolbook division of a by b, b # 0, from the high digit of a down:
\* quot is the quotient of the Len(quot) high digits of a (high zeros
\* kept) and r their remainder
LongDiv(a, b, r, quot) ==
    IF Len(quot) = Len(a) THEN [quot |-> StripHigh(quot), rem |-> r]
    ELSE LET step == QuotDigit(StripHigh(<<a[Len(a) - Len(quot)]>> \o r), b, 0)
         IN  LongDiv(a, b, step.r, <<step.q>> \o quot)

RECURSIVE IntOfNat(_, _)
\* the integer of the n low digits of a, for a that TLC's integers hold
IntOfNat(a, n) == IF n = 0 THEN 0 ELSE a[n] * 10 ^ (n - 1) + IntOfNat(a, n - 1)

RECURSIVE ShortDiv(_, _, _, _)
\* the same division for a divisor b < 10^8, the remainder r kept as an
\* integer: 10 * r + 9 < 2^31
ShortDiv(a, b, r, quot) ==
    IF Len(quot) = Len(a) THEN [quot |-> StripHigh(quot), rem |-> NatOfInt(r)]
    ELSE LET cur == 10 * r + a[Len(a) - Len(quot)]
         IN  ShortDiv(a, b, cur % b, <<cur \div b>> \o quot)

\* the quotient and remainder of a by b, b # 0
NatDivMod(a, b) ==
    IF Len(b) <= 8 THEN ShortDiv(a, IntOfNat(b, Len(b)), 0, <<>>)
    ELSE LongDiv(a, b, <<>>, <<>>)

(***************************************************************************)
(* Numbers.                                                                *)
(***************************************************************************)
NaN == [k |-> "nan", neg |-> FALSE, c |-> <<>>, e |-> 0]

Infinity(neg) == [k |-> "inf", neg |-> neg, c |-> <<>>, e |-> 0]

\* previousValue's null
nullValue == [k |-> "null", neg |-> FALSE, c |-> <<>>, e |-> 0]

\* (-1)^neg * a * 10^e in normal form, a least significant digit first
Finite(neg, a, e) ==
    IF a = <<>>
    THEN [k |-> "fin", neg |-> neg, c |-> <<>>, e |-> 0]
    ELSE LET z == LowZeros(a)
         IN  [k |-> "fin", neg |-> neg,
              c |-> Reverse(SubSeq(a, z + 1, Len(a))), e |-> e + z]

Coef(x) == Reverse(x.c)

IsZero(x) == x.k = "fin" /\ x.c = <<>>

Negate(x) == [x EXCEPT !.neg = ~x.neg]

FinAdd(x, y) ==
    LET e  == Min(x.e, y.e)
        ax == NatShift(Coef(x), x.e - e)
        ay == NatShift(Coef(y), y.e - e)
        o  == NatCmp(ax, ay)
    IN  IF x.neg = y.neg THEN Finite(x.neg, NatAdd(ax, ay), e)
        ELSE IF o = 0 THEN Finite(FALSE, <<>>, 0)
        ELSE IF o > 0 THEN Finite(x.neg, NatSub(ax, ay), e)
        ELSE Finite(y.neg, NatSub(ay, ax), e)

FinMul(x, y) ==
    Finite(x.neg # y.neg, NatMul(Coef(x), Coef(y)), x.e + y.e)

\* x / y for y # 0: the quotient of the coefficients carried 4 * Len(y.c)
\* places, and whether that is the whole of it.  A quotient that ends at all
\* ends within as many places as the divisor has factors 2 or 5, fewer than
\* 4 for each of its digits.
FinDiv(x, y) ==
    LET p  == 4 * Len(y.c)
        dm == NatDivMod(NatShift(Coef(x), p), Coef(y))
    IN  [q |-> Finite(x.neg # y.neg, dm.quot, x.e - y.e - p),
         whole |-> dm.rem = <<>>]

Add(a, b) ==
    IF a.k = "nan" \/ b.k = "nan" THEN NaN
    ELSE IF a.k = "inf" /\ b.k = "inf"
         THEN IF a.neg = b.neg THEN a ELSE NaN
    ELSE IF a.k = "inf" THEN a
    ELSE IF b.k = "inf" THEN b
    ELSE FinAdd(a, b)

Mul(a, b) ==
    IF a.k = "nan" \/ b.k = "nan" THEN NaN
    ELSE IF a.k = "inf" \/ b.k = "inf"
         THEN IF IsZero(a) \/ IsZero(b) THEN NaN ELSE Infinity(a.neg # b.neg)
    ELSE FinMul(a, b)

Div(a, b) ==
    IF a.k = "nan" \/ b.k = "nan" THEN NaN
    ELSE IF a.k = "inf"
         THEN IF b.k = "inf" THEN NaN ELSE Infinity(a.neg # b.neg)
    ELSE IF b.k = "inf" THEN Finite(a.neg # b.neg, <<>>, 0)
    ELSE IF IsZero(b)
         THEN IF IsZero(a) THEN NaN ELSE Infinity(a.neg # b.neg)
    ELSE FinDiv(a, b).q

Operators == {"+", "-", "*", "/"}

calculate(a, b, op) ==
    CASE op = "+" -> Add(a, b)
      [] op = "-" -> Add(a, Negate(b))
      [] op = "*" -> Mul(a, b)
      [] op = "/" -> Div(a, b)

(***************************************************************************)
(* Which decimals are doubles.  2^53 bounds the significand.               *)
(***************************************************************************)
TwoTo53 == <<2, 9, 9, 0, 4, 7, 4, 5, 2, 9, 9, 1, 7, 0, 0, 9>>

\* c * 10^e = m * 2^e with m an integer of at most 53 bits (5^22 is the
\* last power of 5 below 2^53), and the decimal is short enough (15 digits,
\* or an integer up to 2^53) to be the shortest that reads back as the double
ExactDouble(x) ==
    \/ x.k # "fin"
    \/ IsZero(x)
    \/ /\ x.e = 0
       /\ Len(x.c) <= 15 \/ NatCmp(Coef(x), TwoTo53) <= 0
    \/ /\ x.e > 0
       /\ x.e <= 22
       /\ Len(x.c) <= 15
       /\ NatCmp(NatMul(Coef(x), NatPow(5, x.e)), TwoTo53) <= 0
    \/ /\ x.e < 0
       /\ -x.e <= 22
       /\ Len(x.c) <= 15
       /\ LowZeros(NatMul(Coef(x), NatPow(2, -x.e))) >= -x.e

\* the computations whose IEEE-754 result is the decimal result: exact
\* operands and an exact result
Representable(a, b, op) ==
    /\ ExactDouble(a)
    /\ ExactDouble(b)
    /\ (op = "/" /\ a.k = "fin" /\ b.k = "fin" /\ ~IsZero(b)) => FinDiv(a, b).whole
    /\ ExactDouble(calculate(a, b, op))

(***************************************************************************)
(* Number.parseFloat and String.                                           *)
(***************************************************************************)
DigitChars == <<"0", "1", "2", "3", "4", "5", "6", "7", "8", "9">>

IsDigit(ch) == \E i \in 1..10 : DigitChars[i] = ch

DigitOf(ch) == (CHOOSE i \in 1..10 : DigitChars[i] = ch) - 1

CharOf(d) == DigitChars[d + 1]

Text(digits) == [i \in 1..Len(digits) |-> CharOf(digits[i])]

RECURSIVE DigitRun(_)
\* the length of the longest prefix of s made of digits
DigitRun(s) ==
    IF s = <<>> \/ ~IsDigit(Head(s)) THEN 0 ELSE 1 + DigitRun(Tail(s))

Drop(s, n) == SubSeq(s, n + 1, Len(s))

StartsWith(s, p) == Len(s) >= Len(p) /\ SubSeq(s, 1, Len(p)) = p

RECURSIVE IntOf(_, _)
\* the integer a short run of digit characters writes
IntOf(s, acc) ==
    IF s = <<>> THEN acc ELSE IntOf(Tail(s), 10 * acc + DigitOf(Head(s)))

RECURSIVE DigitsOfInt(_)
\* the decimal digits of n >= 0, most significant first
DigitsOfInt(n) ==
    IF n < 10 THEN <<n>> ELSE Append(DigitsOfInt(n \div 10), n % 10)

\* Number.parseFloat: the longest prefix of the text that is a
\* StrDecimalLiteral (sign, Infinity or digits [. digits] [e sign digits]);
\* NaN when there is none
parseFloat(s) ==
    LET signed == s # <<>> /\ Head(s) \in {"-", "+"}
        neg    == s # <<>> /\ Head(s) = "-"
        body   == IF signed THEN Tail(s) ELSE s
        ni     == DigitRun(body)
        int    == SubSeq(body, 1, ni)
        r1     == Drop(body, ni)
        dot    == r1 # <<>> /\ Head(r1) = "."
        nf     == IF dot THEN DigitRun(Tail(r1)) ELSE 0
        frac   == IF dot THEN SubSeq(r1, 2, nf + 1) ELSE <<>>
        r2     == IF dot THEN Drop(r1, nf + 1) ELSE r1
        esign  == Len(r2) >= 2 /\ r2[2] \in {"-", "+"}
        ebody  == IF r2 # <<>> /\ Head(r2) \in {"e", "E"}
                  THEN (IF esign THEN Drop(r2, 2) ELSE Drop(r2, 1))
                  ELSE <<>>
        ne     == DigitRun(ebody)
        ex     == IF ne = 0 THEN 0
                  ELSE IF esign /\ r2[2] = "-"
                       THEN 0 - IntOf(SubSeq(ebody, 1, ne), 0)
                       ELSE IntOf(SubSeq(ebody, 1, ne), 0)
        mant   == [i \in 1..(ni + nf) |-> DigitOf((int \o frac)[i])]
    IN  IF StartsWith(body, <<"I", "n", "f", "i", "n", "i", "t", "y">>)
        THEN Infinity(neg)
        ELSE IF ni + nf = 0 THEN NaN
        ELSE Finite(neg, StripHigh(Reverse(mant)), ex - nf)

\* String(number), Number::toString: c has k digits and the value is
\* 0.c * 10^n
String(x) ==
    LET k    == Len(x.c)
        n    == k + x.e
        d    == Text(x.c)
        sign == IF x.neg THEN <<"-">> ELSE <<>>
        ex   == n - 1
    IN  IF x.k = "nan" THEN <<"N", "a", "N">>
        ELSE IF x.k = "inf"
             THEN sign \o <<"I", "n", "f", "i", "n", "i", "t", "y">>
        ELSE IF k = 0 THEN <<"0">>
        ELSE IF k <= n /\ n <= 21
             THEN sign \o d \o Text(Zeros(n - k))
        ELSE IF 0 < n /\ n <= 21
             THEN sign \o SubSeq(d, 1, n) \o <<".">> \o SubSeq(d, n + 1, k)
        ELSE IF -6 < n /\ n <= 0
             THEN sign \o <<"0", ".">> \o Text(Zeros(-n)) \o d
        ELSE sign \o <<Head(d)>>
                  \o (IF k = 1 THEN <<>> ELSE <<".">> \o Tail(d))
                  \o <<"e", IF ex < 0 THEN "-" ELSE "+">>
                  \o Text(DigitsOfInt(IF ex < 0 THEN -ex ELSE ex))

(***************************************************************************)
(* The Calculator component: its state and its handlers.                   *)
(***************************************************************************)
VARIABLES display, previousValue, operator, waitingForOperand,
          lastPressedButton

\* the state of the component
state == <<display, previousValue, operator, waitingForOperand,
           lastPressedButton>>

\* the four fields of the calculation; lastPressedButton only drives the
\* highlight of the button pressed last
fields == <<display, previousValue, operator, waitingForOperand>>

\* the null of operator and of lastPressedButton
null == "null"

Init ==
    /\ display = <<"0">>
    /\ previousValue = nullValue
    /\ operator = null
    /\ waitingForOperand = FALSE
    /\ lastPressedButton = null

\* the cap of handleNumber
MaxDigits == 15

\* text.replace(".", ""): the text without its first "."
RemoveFirstDot(text) ==
    LET dots == {i \in 1..Len(text) : text[i] = "."}
    IN  IF dots = {} THEN text
        ELSE SubSeq(text, 1, MinOf(dots) - 1) \o Drop(text, MinOf(dots))

\* handleNumber with the cap tested on the text before the digit is appended
handleNumber_capOnPrev(digit) ==
    /\ lastPressedButton' = "number-" \o digit
    /\ IF waitingForOperand
       THEN /\ waitingForOperand' = FALSE
            /\ display' = <<digit>>
       ELSE LET next == IF display = <<"0">> THEN <<digit>>
                        ELSE display \o <<digit>>
            IN  /\ display' = IF Len(RemoveFirstDot(display)) > MaxDigits
                              THEN display ELSE next
                /\ UNCHANGED waitingForOperand
    /\ UNCHANGED <<previousValue, operator>>

\* handleNumber appending to every text, "0" included
handleNumber_appendsToZero(digit) ==
    /\ lastPressedButton' = "number-" \o digit
    /\ IF waitingForOperand
       THEN /\ waitingForOperand' = FALSE
            /\ display' = <<digit>>
       ELSE LET next == display \o <<digit>>
            IN  /\ display' = IF Len(RemoveFirstDot(next)) > MaxDigits
                              THEN display ELSE next
                /\ UNCHANGED waitingForOperand
    /\ UNCHANGED <<previousValue, operator>>

\* handleNumber appending to the display while waitingForOperand
handleNumber_appendsToResult(digit) ==
    /\ lastPressedButton' = "number-" \o digit
    /\ LET next == IF display = <<"0">> THEN <<digit>>
                   ELSE display \o <<digit>>
       IN  /\ display' = IF Len(RemoveFirstDot(next)) > MaxDigits
                         THEN display ELSE next
           /\ waitingForOperand' = FALSE
    /\ UNCHANGED <<previousValue, operator>>

handleNumber(digit) ==
    /\ lastPressedButton' = "number-" \o digit
    /\ IF waitingForOperand
       THEN /\ waitingForOperand' = FALSE
            /\ display' = <<digit>>
       ELSE LET next == IF display = <<"0">> THEN <<digit>>
                        ELSE display \o <<digit>>
            IN  /\ display' = IF Len(RemoveFirstDot(next)) > MaxDigits
                              THEN display ELSE next
                /\ UNCHANGED waitingForOperand
    /\ UNCHANGED <<previousValue, operator>>

\* handleOperator calculating with the operator just pressed
handleOperator_newOperator(nextOperator) ==
    LET inputValue == parseFloat(display)
    IN  /\ lastPressedButton' = "operator-" \o nextOperator
        /\ IF previousValue = nullValue
           THEN /\ previousValue' = inputValue
                /\ operator' = nextOperator
                /\ waitingForOperand' = TRUE
                /\ UNCHANGED display
           ELSE IF operator # null /\ ~waitingForOperand
           THEN LET result == calculate(previousValue, inputValue,
                                        nextOperator)
                IN  /\ display' = String(result)
                    /\ previousValue' = result
                    /\ operator' = nextOperator
                    /\ waitingForOperand' = TRUE
           ELSE /\ operator' = nextOperator
                /\ waitingForOperand' = TRUE
                /\ UNCHANGED <<display, previousValue>>

\* handleOperator calculating whether or not an operand was typed
handleOperator_alwaysCalculates(nextOperator) ==
    LET inputValue == parseFloat(display)
    IN  /\ lastPressedButton' = "operator-" \o nextOperator
        /\ IF previousValue = nullValue
           THEN /\ previousValue' = inputValue
                /\ operator' = nextOperator
                /\ waitingForOperand' = TRUE
                /\ UNCHANGED display
           ELSE IF operator # null
           THEN LET result == calculate(previousValue, inputValue, operator)
                IN  /\ display' = String(result)
                    /\ previousValue' = result
                    /\ operator' = nextOperator
                    /\ waitingForOperand' = TRUE
           ELSE /\ operator' = nextOperator
                /\ waitingForOperand' = TRUE
                /\ UNCHANGED <<display, previousValue>>

\* handleOperator returning when the result is not finite
handleOperator_dropsNonFinite(nextOperator) ==
    LET inputValue == parseFloat(display)
    IN  /\ lastPressedButton' = "operator-" \o nextOperator
        /\ IF previousValue = nullValue
           THEN /\ previousValue' = inputValue
                /\ operator' = nextOperator
                /\ waitingForOperand' = TRUE
                /\ UNCHANGED display
           ELSE IF operator # null /\ ~waitingForOperand
           THEN LET result == calculate(previousValue, inputValue, operator)
                IN  IF result.k # "fin"
                    THEN UNCHANGED fields
                    ELSE /\ display' = String(result)
                         /\ previousValue' = result
                         /\ operator' = nextOperator
                         /\ waitingForOperand' = TRUE
           ELSE /\ operator' = nextOperator
                /\ waitingForOperand' = TRUE
                /\ UNCHANGED <<display, previousValue>>

handleOperator(nextOperator) ==
    LET inputValue == parseFloat(display)
    IN  /\ lastPressedButton' = "operator-" \o nextOperator
        /\ IF previousValue = nullValue
           THEN /\ previousValue' = inputValue
                /\ operator' = nextOperator
                /\ waitingForOperand' = TRUE
                /\ UNCHANGED display
           ELSE IF operator # null /\ ~waitingForOperand
           THEN LET result == calculate(previousValue, inputValue, operator)
                IN  /\ display' = String(result)
                    /\ previousValue' = result
                    /\ operator' = nextOperator
                    /\ waitingForOperand' = TRUE
           ELSE /\ operator' = nextOperator
                /\ waitingForOperand' = TRUE
                /\ UNCHANGED <<display, previousValue>>

\* handleEquals without setPreviousValue(null)
handleEquals_keepsOperand ==
    IF operator = null \/ previousValue = nullValue
    THEN UNCHANGED state
    ELSE LET inputValue == parseFloat(display)
             result     == calculate(previousValue, inputValue, operator)
         IN  /\ lastPressedButton' = null
             /\ display' = String(result)
             /\ operator' = null
             /\ waitingForOperand' = TRUE
             /\ UNCHANGED previousValue

\* handleEquals with the operands of calculate exchanged
handleEquals_operandsExchanged ==
    IF operator = null \/ previousValue = nullValue
    THEN UNCHANGED state
    ELSE LET inputValue == parseFloat(display)
             result     == calculate(inputValue, previousValue, operator)
         IN  /\ lastPressedButton' = null
             /\ display' = String(result)
             /\ previousValue' = nullValue
             /\ operator' = null
             /\ waitingForOperand' = TRUE

\* handleEquals whose test skips the calculation only
handleEquals_returnsLate ==
    IF operator = null \/ previousValue = nullValue
    THEN /\ lastPressedButton' = null
         /\ previousValue' = nullValue
         /\ operator' = null
         /\ waitingForOperand' = TRUE
         /\ UNCHANGED display
    ELSE LET inputValue == parseFloat(display)
             result     == calculate(previousValue, inputValue, operator)
         IN  /\ lastPressedButton' = null
             /\ display' = String(result)
             /\ previousValue' = nullValue
             /\ operator' = null
             /\ waitingForOperand' = TRUE

handleEquals ==
    IF operator = null \/ previousValue = nullValue
    THEN UNCHANGED state
    ELSE LET inputValue == parseFloat(display)
             result     == calculate(previousValue, inputValue, operator)
         IN  /\ lastPressedButton' = null
             /\ display' = String(result)
             /\ previousValue' = nullValue
             /\ operator' = null
             /\ waitingForOperand' = TRUE

\* handleClear without setWaitingForOperand(false)
handleClear_keepsWaiting ==
    /\ lastPressedButton' = null
    /\ display' = <<"0">>
    /\ previousValue' = nullValue
    /\ operator' = null
    /\ UNCHANGED waitingForOperand

handleClear ==
    /\ lastPressedButton' = null
    /\ display' = <<"0">>
    /\ previousValue' = nullValue
    /\ operator' = null
    /\ waitingForOperand' = FALSE

\* handleDecimal without the test prev.includes(".")
handleDecimal_alwaysAppends ==
    /\ lastPressedButton' = "decimal"
    /\ IF waitingForOperand
       THEN /\ display' = <<"0", ".">>
            /\ waitingForOperand' = FALSE
       ELSE /\ display' = display \o <<".">>
            /\ UNCHANGED waitingForOperand
    /\ UNCHANGED <<previousValue, operator>>

\* handleDecimal starting the new number as "." for "0."
handleDecimal_bareDot ==
    /\ lastPressedButton' = "decimal"
    /\ IF waitingForOperand
       THEN /\ display' = <<".">>
            /\ waitingForOperand' = FALSE
       ELSE /\ display' = IF \E i \in 1..Len(display) : display[i] = "."
                          THEN display ELSE display \o <<".">>
            /\ UNCHANGED waitingForOperand
    /\ UNCHANGED <<previousValue, operator>>

handleDecimal ==
    /\ lastPressedButton' = "decimal"
    /\ IF waitingForOperand
       THEN /\ display' = <<"0", ".">>
            /\ waitingForOperand' = FALSE
       ELSE /\ display' = IF \E i \in 1..Len(display) : display[i] = "."
                          THEN display ELSE display \o <<".">>
            /\ UNCHANGED waitingForOperand
    /\ UNCHANGED <<previousValue, operator>>

\* handleBackspace without the || "0"
handleBackspace_leavesEmpty ==
    IF waitingForOperand
    THEN UNCHANGED state
    ELSE /\ lastPressedButton' = "backspace"
         /\ display' = SubSeq(display, 1, Len(display) - 1)
         /\ UNCHANGED <<previousValue, operator, waitingForOperand>>

\* handleBackspace without the return on waitingForOperand
handleBackspace_erasesResult ==
    LET next == SubSeq(display, 1, Len(display) - 1)
    IN  /\ lastPressedButton' = "backspace"
        /\ display' = IF next = <<>> THEN <<"0">> ELSE next
        /\ UNCHANGED <<previousValue, operator, waitingForOperand>>

\* handleBackspace dropping the pending operation with the last character
handleBackspace_clearsPending ==
    IF waitingForOperand
    THEN UNCHANGED state
    ELSE LET next == SubSeq(display, 1, Len(display) - 1)
         IN  /\ lastPressedButton' = "backspace"
             /\ display' = IF next = <<>> THEN <<"0">> ELSE next
             /\ IF next = <<>>
                THEN previousValue' = nullValue /\ operator' = null
                ELSE UNCHANGED <<previousValue, operator>>
             /\ UNCHANGED waitingForOperand

handleBackspace ==
    IF waitingForOperand
    THEN UNCHANGED state
    ELSE LET next == SubSeq(display, 1, Len(display) - 1)
         IN  /\ lastPressedButton' = "backspace"
             /\ display' = IF next = <<>> THEN <<"0">> ELSE next
             /\ UNCHANGED <<previousValue, operator, waitingForOperand>>

(***************************************************************************)
(* The host: React and the window.  A handler is a function made by        *)
(* useCallback in some render; it reads the state variables of Reads from  *)
(* the scope of that render and display, inside an updater of setDisplay,  *)
(* from the state the update is applied to.  A handler is given here by    *)
(* the values it captured.  The updates an event makes are rendered, and   *)
(* the effect of the render is run, before the window dispatches the next  *)
(* event: phase is "ready" when the component is rendered and subscribed,  *)
(* "render" when updates wait for a render and "effect" when a render      *)
(* waits for its effect.                                                   *)
(***************************************************************************)
VARIABLES mounted, phase, handlers, listeners, effectDeps, event

host == <<mounted, phase, handlers, listeners, effectDeps, event>>

Handlers == {"handleNumber", "handleOperator", "handleEquals",
             "handleClear", "handleDecimal", "handleBackspace"}

\* the dependency array of each useCallback, without display
Deps_withoutDisplay(h) ==
    CASE h = "handleNumber"    -> {"waitingForOperand"}
      [] h = "handleOperator"  -> {"operator", "previousValue",
                                   "waitingForOperand"}
      [] h = "handleEquals"    -> {"operator", "previousValue"}
      [] h = "handleClear"     -> {}
      [] h = "handleDecimal"   -> {"waitingForOperand"}
      [] h = "handleBackspace" -> {"waitingForOperand"}

\* the dependency array of each useCallback
Deps(h) ==
    CASE h = "handleNumber"    -> {"waitingForOperand"}
      [] h = "handleOperator"  -> {"display", "operator", "previousValue",
                                   "waitingForOperand"}
      [] h = "handleEquals"    -> {"display", "operator", "previousValue"}
      [] h = "handleClear"     -> {}
      [] h = "handleDecimal"   -> {"waitingForOperand"}
      [] h = "handleBackspace" -> {"waitingForOperand"}

\* the dependency array of the effect
EffectDeps == {"handleNumber", "handleOperator", "handleEquals",
               "handleDecimal", "handleBackspace", "handleClear"}

\* the state variables the body of each handler reads from its render
Reads(h) ==
    CASE h = "handleNumber"    -> {"waitingForOperand"}
      [] h = "handleOperator"  -> {"display", "previousValue", "operator",
                                   "waitingForOperand"}
      [] h = "handleEquals"    -> {"operator", "previousValue", "display"}
      [] h = "handleClear"     -> {}
      [] h = "handleDecimal"   -> {"waitingForOperand"}
      [] h = "handleBackspace" -> {"waitingForOperand"}

\* the state variables as the current render sees them
scope ==
    [display |-> display, previousValue |-> previousValue,
     operator |-> operator, waitingForOperand |-> waitingForOperand]

\* the state as the record the updates of an event are applied to
current ==
    [display |-> display, previousValue |-> previousValue,
     operator |-> operator, waitingForOperand |-> waitingForOperand,
     lastPressedButton |-> lastPressedButton]

\* the handler h made by the current render
Closure(h) == [v \in Reads(h) \cup Deps(h) |-> scope[v]]

\* useCallback(fn, deps): the handler of the render before unless a
\* dependency has changed
useCallback(h, previous) ==
    IF \E v \in Deps(h) : previous[v] # scope[v]
    THEN Closure(h) ELSE previous

RECURSIVE Join(_)
\* the characters of text as one string
Join(text) == IF text = <<>> THEN "" ELSE Head(text) \o Join(Tail(text))

\* The handlers as functions: c is the handler's captured values, s the
\* state its updates are applied to, the value the state after them.
handleNumberCall(c, s, digit) ==
    LET next == IF s.display = <<"0">> THEN digit ELSE s.display \o digit
    IN  [s EXCEPT
           !.lastPressedButton = "number-" \o Join(digit),
           !.display = IF c.waitingForOperand THEN digit
                       ELSE IF Len(RemoveFirstDot(next)) > MaxDigits
                       THEN s.display ELSE next,
           !.waitingForOperand = IF c.waitingForOperand THEN FALSE ELSE @]

handleOperatorCall(c, s, nextOperator) ==
    LET inputValue == parseFloat(c.display)
        pressedOp  == [s EXCEPT
                         !.lastPressedButton = "operator-" \o nextOperator]
    IN  IF c.previousValue = nullValue
        THEN [pressedOp EXCEPT !.previousValue = inputValue,
                               !.operator = nextOperator,
                               !.waitingForOperand = TRUE]
        ELSE IF c.operator # null /\ ~c.waitingForOperand
        THEN LET result == calculate(c.previousValue, inputValue,
                                     c.operator)
             IN  [pressedOp EXCEPT !.display = String(result),
                                   !.previousValue = result,
                                   !.operator = nextOperator,
                                   !.waitingForOperand = TRUE]
        ELSE [pressedOp EXCEPT !.operator = nextOperator,
                               !.waitingForOperand = TRUE]

handleEqualsCall(c, s) ==
    IF c.operator = null \/ c.previousValue = nullValue
    THEN s
    ELSE LET inputValue == parseFloat(c.display)
             result     == calculate(c.previousValue, inputValue,
                                     c.operator)
         IN  [s EXCEPT !.lastPressedButton = null,
                       !.display = String(result),
                       !.previousValue = nullValue,
                       !.operator = null,
                       !.waitingForOperand = TRUE]

handleClearCall(c, s) ==
    [s EXCEPT !.lastPressedButton = null,
              !.display = <<"0">>,
              !.previousValue = nullValue,
              !.operator = null,
              !.waitingForOperand = FALSE]

handleDecimalCall(c, s) ==
    IF c.waitingForOperand
    THEN [s EXCEPT !.lastPressedButton = "decimal",
                   !.display = <<"0", ".">>,
                   !.waitingForOperand = FALSE]
    ELSE [s EXCEPT !.lastPressedButton = "decimal",
                   !.display = IF \E i \in 1..Len(@) : @[i] = "."
                               THEN @ ELSE @ \o <<".">>]

handleBackspaceCall(c, s) ==
    IF c.waitingForOperand
    THEN s
    ELSE LET next == SubSeq(s.display, 1, Len(s.display) - 1)
         IN  [s EXCEPT !.lastPressedButton = "backspace",
                       !.display = IF next = <<>> THEN <<"0">> ELSE next]

(***************************************************************************)
(* The keydown listener.  The key of an event is a text; the named keys    *)
(* are texts of several characters ("Enter"), the others one character,    *)
(* which combining characters may follow.  "U+0302" stands for the         *)
(* combining circumflex, one UTF-16 code unit.                             *)
(***************************************************************************)
Upper == <<"A", "B", "C", "D", "E", "F", "G", "H", "I", "J", "K", "L", "M",
           "N", "O", "P", "Q", "R", "S", "T", "U", "V", "W", "X", "Y", "Z">>

Lower == <<"a", "b", "c", "d", "e", "f", "g", "h", "i", "j", "k", "l", "m",
           "n", "o", "p", "q", "r", "s", "t", "u", "v", "w", "x", "y", "z">>

\* the UTF-16 code unit of a character
CodeUnit(ch) ==
    CASE IsDigit(ch) -> 48 + DigitOf(ch)
      [] ch = "*" -> 42
      [] ch = "+" -> 43
      [] ch = "," -> 44
      [] ch = "-" -> 45
      [] ch = "." -> 46
      [] ch = "/" -> 47
      [] ch = ":" -> 58
      [] ch = "=" -> 61
      [] ch = "U+0302" -> 770
      [] \E i \in 1..26 : Upper[i] = ch ->
             64 + (CHOOSE i \in 1..26 : Upper[i] = ch)
      [] \E i \in 1..26 : Lower[i] = ch ->
             96 + (CHOOSE i \in 1..26 : Lower[i] = ch)

RECURSIVE StringLeq(_, _)
\* a <= b of two strings: the order of their code units, a prefix first
StringLeq(a, b) ==
    IF a = <<>> THEN TRUE
    ELSE IF b = <<>> THEN FALSE
    ELSE IF CodeUnit(Head(a)) # CodeUnit(Head(b))
    THEN CodeUnit(Head(a)) < CodeUnit(Head(b))
    ELSE StringLeq(Tail(a), Tail(b))

\* a call of a handler: its name and its argument as a text, <<>> for none
Call(name, argument) == [handler |-> name, arg |-> argument]

\* the state after the call made with the handlers hs
Apply(call, hs, s) ==
    CASE call.handler = "handleNumber" ->
             handleNumberCall(hs["handleNumber"], s, call.arg)
      [] call.handler = "handleOperator" ->
             handleOperatorCall(hs["handleOperator"], s, call.arg[1])
      [] call.handler = "handleEquals" ->
             handleEqualsCall(hs["handleEquals"], s)
      [] call.handler = "handleClear" ->
             handleClearCall(hs["handleClear"], s)
      [] call.handler = "handleDecimal" ->
             handleDecimalCall(hs["handleDecimal"], s)
      [] call.handler = "handleBackspace" ->
             handleBackspaceCall(hs["handleBackspace"], s)

\* handleKeyDown without the key ","
handleKeyDown_withoutComma(key) ==
    IF StringLeq(<<"0">>, key) /\ StringLeq(key, <<"9">>)
    THEN <<Call("handleNumber", key)>>
    ELSE IF key = <<"+">> THEN <<Call("handleOperator", <<"+">>)>>
    ELSE IF key = <<"-">> THEN <<Call("handleOperator", <<"-">>)>>
    ELSE IF key = <<"*">> THEN <<Call("handleOperator", <<"*">>)>>
    ELSE IF key = <<"/">> THEN <<Call("handleOperator", <<"/">>)>>
    ELSE IF key = <<"E", "n", "t", "e", "r">> \/ key = <<"=">>
    THEN <<Call("handleEquals", <<>>)>>
    ELSE IF key = <<".">>
    THEN <<Call("handleDecimal", <<>>)>>
    ELSE IF \/ key = <<"B", "a", "c", "k", "s", "p", "a", "c", "e">>
            \/ key = <<"D", "e", "l", "e", "t", "e">>
    THEN <<Call("handleBackspace", <<>>)>>
    ELSE IF key = <<"E", "s", "c", "a", "p", "e">>
    THEN <<Call("handleClear", <<>>)>>
    ELSE <<>>

\* handleKeyDown: the call the listener makes for the key, after
\* event.preventDefault(); none, and no preventDefault, for any other key
handleKeyDown(key) ==
    IF StringLeq(<<"0">>, key) /\ StringLeq(key, <<"9">>)
    THEN <<Call("handleNumber", key)>>
    ELSE IF key = <<"+">> THEN <<Call("handleOperator", <<"+">>)>>
    ELSE IF key = <<"-">> THEN <<Call("handleOperator", <<"-">>)>>
    ELSE IF key = <<"*">> THEN <<Call("handleOperator", <<"*">>)>>
    ELSE IF key = <<"/">> THEN <<Call("handleOperator", <<"/">>)>>
    ELSE IF key = <<"E", "n", "t", "e", "r">> \/ key = <<"=">>
    THEN <<Call("handleEquals", <<>>)>>
    ELSE IF key = <<".">> \/ key = <<",">>
    THEN <<Call("handleDecimal", <<>>)>>
    ELSE IF \/ key = <<"B", "a", "c", "k", "s", "p", "a", "c", "e">>
            \/ key = <<"D", "e", "l", "e", "t", "e">>
    THEN <<Call("handleBackspace", <<>>)>>
    ELSE IF key = <<"E", "s", "c", "a", "p", "e">>
    THEN <<Call("handleClear", <<>>)>>
    ELSE <<>>

\* window.addEventListener("keydown", listener)
addEventListener(registered, listener) == Append(registered, listener)

\* the cleanup of the effect without its removeEventListener
removeEventListener_kept(registered, listener) == registered

\* window.removeEventListener("keydown", listener)
removeEventListener(registered, listener) ==
    LET at == {i \in 1..Len(registered) : registered[i] = listener}
    IN  IF at = {} THEN registered
        ELSE SubSeq(registered, 1, MinOf(at) - 1)
                 \o Drop(registered, MinOf(at))

RECURSIVE dispatchEvent(_, _, _)
\* the state after the window has called the registered listeners, in the
\* order they were added, with a keydown of key
dispatchEvent(registered, s, key) ==
    IF registered = <<>> \/ handleKeyDown(key) = <<>>
    THEN s
    ELSE dispatchEvent(Tail(registered),
                       Apply(handleKeyDown(key)[1], Head(registered), s),
                       key)

\* the handlers of the first render
InitialHandlers ==
    [h \in Handlers |->
        [v \in Reads(h) \cup Deps(h) |->
            CASE v = "display" -> <<"0">>
              [] v = "previousValue" -> nullValue
              [] v = "operator" -> null
              [] v = "waitingForOperand" -> FALSE]]

noEvent == [type |-> "none", key |-> <<>>, prevented |-> FALSE,
            calls |-> <<>>]

\* the calculator mounted by App: rendered once, its effect run
HostInit ==
    /\ mounted = TRUE
    /\ phase = "ready"
    /\ handlers = InitialHandlers
    /\ listeners = <<InitialHandlers>>
    /\ effectDeps = <<InitialHandlers>>
    /\ event = noEvent

(***************************************************************************)
(* The user.  Each button's onClick calls its handler; pressed is the kind *)
(* of button the user pressed last and pressedIn the four fields it was    *)
(* pressed in.  The keypad has ten digit buttons; the user of this model   *)
(* presses those of Digits, types a number freely up to                    *)
(* MaxTyped characters and beyond that only holds RepeatDigit down on a    *)
(* run of it, which is how the cap of MaxDigits is reached; on a full      *)
(* display every digit of Digits is pressed.  An operator is pressed only  *)
(* when the pending operand it leaves is non-finite or an integer of       *)
(* magnitude at most MaxPending, and a calculation is asked for only when  *)
(* it is Representable.                                                    *)
(***************************************************************************)
VARIABLES pressed, pressedIn

vars == <<display, previousValue, operator, waitingForOperand,
          lastPressedButton, pressed, pressedIn, host>>

Digits == {"0", "2", "3", "5"}

RepeatDigit == "5"

MaxTyped == 3

MaxPending == 9

IsRun(text) ==
    LET digits == RemoveFirstDot(text)
    IN  \A i \in 1..Len(digits) : digits[i] = RepeatDigit

InPendingRange(v) ==
    IF v.k = "fin" /\ ~IsZero(v)
    THEN /\ v.e >= 0
         /\ Len(v.c) + v.e <= 8
         /\ IntOfNat(NatShift(Coef(v), v.e), Len(v.c) + v.e) <= MaxPending
    ELSE v.k \in {"nan", "inf", "fin"}

\* the calculation the pending operation asks for is one of the model's
InModel ==
    IF previousValue # nullValue /\ operator # null
    THEN Representable(previousValue, parseFloat(display), operator)
    ELSE TRUE

UserInit ==
    /\ Init
    /\ pressed = "none"
    /\ pressedIn = <<>>
    /\ HostInit

Press(button) ==
    /\ pressed' = button
    /\ pressedIn' = fields
    /\ UNCHANGED host

\* The guards are the conditions of IF so that they are evaluated as
\* expressions, once for each state.
PressNumber(d) ==
    IF \/ waitingForOperand
       \/ Len(display) < MaxTyped
       \/ IsRun(display) /\ d = RepeatDigit
       \/ IsRun(display) /\ Len(RemoveFirstDot(display)) = MaxDigits
    THEN /\ handleNumber(d)
         /\ Press("number")
    ELSE FALSE

PressOperator ==
    IF waitingForOperand \/ InModel
    THEN /\ \E op \in Operators :
              /\ handleOperator(op)
              /\ InPendingRange(previousValue')
         /\ Press("operator")
    ELSE FALSE

PressEquals ==
    IF InModel
    THEN /\ handleEquals
         /\ Press("equals")
    ELSE FALSE

PressClear ==
    /\ handleClear
    /\ Press("clear")

PressDecimal ==
    IF waitingForOperand \/ Len(display) < MaxTyped
    THEN /\ handleDecimal
         /\ Press("decimal")
    ELSE FALSE

PressBackspace ==
    /\ handleBackspace
    /\ Press("backspace")

Next ==
    \/ \E d \in Digits : PressNumber(d)
    \/ PressOperator
    \/ PressEquals
    \/ PressClear
    \/ PressDecimal
    \/ PressBackspace

Spec == UserInit /\ [][Next]_vars

(***************************************************************************)
(* The calculator in its host.  The user clicks the buttons and presses    *)
(* keys, App mounts and unmounts the calculator, React renders the updates *)
(* of an event and runs the effect of the render.  The user of this model  *)
(* has the keys of Keys, the digit buttons of KeyDigits and every other    *)
(* button, and keeps to the numbers of the user above.                     *)
(***************************************************************************)
Enter == <<"E", "n", "t", "e", "r">>

Backspace == <<"B", "a", "c", "k", "s", "p", "a", "c", "e">>

Delete == <<"D", "e", "l", "e", "t", "e">>

Escape == <<"E", "s", "c", "a", "p", "e">>

Shift == <<"S", "h", "i", "f", "t">>

KeyDigits == {"2", "5"}

\* the keys that type: the digits, the points and a digit with a combining
\* circumflex
TypingKeys == {<<d>> : d \in KeyDigits}
                  \cup {<<".">>, <<",">>, <<"5", "U+0302">>}

OperatorKeys == {<<op>> : op \in Operators}

EqualsKeys == {Enter, <<"=">>}

OtherKeys == {Backspace, Delete, Escape, Shift, <<"a">>, <<":">>}

Keys == TypingKeys \cup OperatorKeys \cup EqualsKeys \cup OtherKeys

\* a button is the call its onClick makes
Buttons ==
    {Call("handleNumber", <<d>>) : d \in KeyDigits}
        \cup {Call("handleOperator", <<op>>) : op \in Operators}
        \cup {Call(h, <<>>) : h \in {"handleEquals", "handleClear",
                                    "handleDecimal", "handleBackspace"}}

\* the onClick of a button rendered with the handlers hs
onClick(button, hs, s) == Apply(button, hs, s)

\* the updates of an event: the state set, a render asked for when it has
\* changed
Update(s) ==
    /\ display' = s.display
    /\ previousValue' = s.previousValue
    /\ operator' = s.operator
    /\ waitingForOperand' = s.waitingForOperand
    /\ lastPressedButton' = s.lastPressedButton
    /\ phase' = IF s = current THEN "ready" ELSE "render"

Click(button) ==
    IF /\ mounted
       /\ phase = "ready"
       /\ CASE button.handler \in {"handleNumber", "handleDecimal"} ->
                   waitingForOperand \/ Len(display) < MaxTyped
            [] button.handler = "handleOperator" ->
                   waitingForOperand \/ InModel
            [] button.handler = "handleEquals" -> InModel
            [] OTHER -> TRUE
    THEN LET s == onClick(button, handlers, current)
         IN  /\ button.handler = "handleOperator"
                    => InPendingRange(s.previousValue)
             /\ Update(s)
             /\ event' = [type |-> "click", key |-> <<>>,
                          prevented |-> FALSE, calls |-> <<button>>]
             /\ UNCHANGED <<mounted, handlers, listeners, effectDeps,
                            pressed, pressedIn>>
    ELSE FALSE

KeyDown(key) ==
    IF /\ phase = "ready"
       /\ CASE key \in TypingKeys ->
                   waitingForOperand \/ Len(display) < MaxTyped
            [] key \in OperatorKeys -> waitingForOperand \/ InModel
            [] key \in EqualsKeys -> InModel
            [] OTHER -> TRUE
    THEN LET s == dispatchEvent(listeners, current, key)
         IN  /\ (key \in OperatorKeys /\ mounted)
                    => InPendingRange(s.previousValue)
             /\ Update(s)
             /\ event' = [type |-> "keydown", key |-> key,
                          prevented |-> listeners # <<>>
                                           /\ handleKeyDown(key) # <<>>,
                          calls |-> IF handleKeyDown(key) = <<>> THEN <<>>
                                    ELSE [i \in 1..Len(listeners) |->
                                             handleKeyDown(key)[1]]]
             /\ UNCHANGED <<mounted, handlers, listeners, effectDeps,
                            pressed, pressedIn>>
    ELSE FALSE

\* the render of the updated state: every useCallback of the component
Render ==
    /\ phase = "render"
    /\ handlers' = [h \in Handlers |-> useCallback(h, handlers[h])]
    /\ phase' = "effect"
    /\ UNCHANGED <<state, mounted, listeners, effectDeps, event,
                   pressed, pressedIn>>

\* useEffect: on the first render, and when a handler of its dependency
\* array has changed, the cleanup of the effect before and the effect
Effect ==
    /\ phase = "effect"
    /\ IF effectDeps = <<>>
       THEN /\ listeners' = addEventListener(listeners, handlers)
            /\ effectDeps' = <<handlers>>
       ELSE IF \E h \in EffectDeps : handlers[h] # effectDeps[1][h]
       THEN /\ listeners' = addEventListener(
                                removeEventListener(listeners,
                                                    effectDeps[1]),
                                handlers)
            /\ effectDeps' = <<handlers>>
       ELSE UNCHANGED <<listeners, effectDeps>>
    /\ phase' = "ready"
    /\ UNCHANGED <<state, mounted, handlers, event, pressed, pressedIn>>

\* the calculator removed from the page: the cleanup of its effect; its
\* state is lost
Unmount ==
    /\ mounted
    /\ phase = "ready"
    /\ mounted' = FALSE
    /\ listeners' = removeEventListener(listeners, effectDeps[1])
    /\ effectDeps' = <<>>
    /\ handlers' = InitialHandlers
    /\ display' = <<"0">>
    /\ previousValue' = nullValue
    /\ operator' = null
    /\ waitingForOperand' = FALSE
    /\ lastPressedButton' = null
    /\ UNCHANGED <<phase, event, pressed, pressedIn>>

\* the calculator put on the page again: its first render
Mount ==
    /\ ~mounted
    /\ phase = "ready"
    /\ mounted' = TRUE
    /\ handlers' = [h \in Handlers |-> Closure(h)]
    /\ phase' = "effect"
    /\ UNCHANGED <<state, listeners, effectDeps, event, pressed, pressedIn>>

KeyNext ==
    \/ \E button \in Buttons : Click(button)
    \/ \E key \in Keys : KeyDown(key)
    \/ Render
    \/ Effect
    \/ Unmount
    \/ Mount

KeySpec == UserInit /\ [][KeyNext]_vars


(***************************************************************************)
(* The properties.  A step of the user is told by pressed', the operator   *)
(* of an operator press by lastPressedButton'; after the step pressedIn    *)
(* holds the fields it started from.                                       *)
(***************************************************************************)
\* the characters of text other than the decimal point
DigitCount(text) == Cardinality({i \in 1..Len(text) : text[i] # "."})

DotCount(text) == Cardinality({i \in 1..Len(text) : text[i] = "."})

\* text of n times the character ch
Repeated(ch, n) == [i \in 1..n |-> ch]

\* the number an integer literal stands for
NumberOf(n) == Finite(n < 0, NatOfInt(IF n < 0 THEN -n ELSE n), 0)

\* C1: in every reachable state the pending operator is absent if and only
\* if the pending operand is absent.
C1_PendingTogether == (operator = null) <=> (previousValue = nullValue)

\* the = of 5 + 3 * 2 = has cleared both, which + had set together
C1_Witness ==
    /\ pressed = "equals"
    /\ pressedIn = <<<<"2">>, NumberOf(8), "*", FALSE>>
    /\ operator = null
    /\ previousValue = nullValue

\* C2: an operator press with a pending operand and operator and
\* AwaitingNewOperand false calculates with the OLD operator, shows the
\* stringified result, keeps it as the pending operand, makes the pressed
\* operator the pending one and sets AwaitingNewOperand; so in 5 + 3 * 2 =
\* the press of * leaves ("8", 8, *, awaiting) and the press of = leaves
\* ("16", absent, absent, awaiting).
C2_OperatorCalculates ==
    [][ /\ (/\ pressed' = "operator"
            /\ previousValue # nullValue
            /\ operator # null
            /\ ~waitingForOperand)
           => LET result == calculate(previousValue, parseFloat(display),
                                      operator)
              IN  /\ display' = String(result)
                  /\ previousValue' = result
                  /\ operator' \in Operators
                  /\ lastPressedButton' = "operator-" \o operator'
                  /\ waitingForOperand' = TRUE
        /\ (/\ pressed' = "operator"
            /\ lastPressedButton' = "operator-*"
            /\ display = <<"3">>
            /\ previousValue = NumberOf(5)
            /\ operator = "+"
            /\ ~waitingForOperand)
           => /\ display' = <<"8">>
              /\ previousValue' = NumberOf(8)
              /\ operator' = "*"
              /\ waitingForOperand' = TRUE
        /\ (/\ pressed' = "equals"
            /\ display = <<"2">>
            /\ previousValue = NumberOf(8)
            /\ operator = "*"
            /\ ~waitingForOperand)
           => /\ display' = <<"1", "6">>
              /\ previousValue' = nullValue
              /\ operator' = null
              /\ waitingForOperand' = TRUE
      ]_vars

\* * pressed after 5 + 3 has left ("8", 8, *, awaiting)
C2_Witness ==
    /\ pressed = "operator"
    /\ pressedIn = <<<<"3">>, NumberOf(5), "+", FALSE>>
    /\ fields = <<<<"8">>, NumberOf(8), "*", TRUE>>

\* C3: an operator press while a pending operand exists and
\* AwaitingNewOperand is true calculates nothing: it replaces the pending
\* operator by the pressed one, keeps AwaitingNewOperand true and leaves the
\* pending operand and the display unchanged, however often it is repeated.
C3_OperatorSubstitutes ==
    [][ (/\ pressed' = "operator"
         /\ previousValue # nullValue
         /\ waitingForOperand)
        => /\ operator' \in Operators
           /\ lastPressedButton' = "operator-" \o operator'
           /\ waitingForOperand' = TRUE
           /\ UNCHANGED <<display, previousValue>>
      ]_vars

\* - pressed right after 5 + has left ("5", 5, -, awaiting)
C3_Witness ==
    /\ pressed = "operator"
    /\ pressedIn = <<<<"5">>, NumberOf(5), "+", TRUE>>
    /\ fields = <<<<"5">>, NumberOf(5), "-", TRUE>>

\* C4: equals with a pending operand and operator shows the stringified
\* calculate(pending operand, number parsed from the display, pending
\* operator), clears the pending operand and operator and sets
\* AwaitingNewOperand, whether AwaitingNewOperand was true or false.
C4_EqualsCalculates ==
    [][ (/\ pressed' = "equals"
         /\ previousValue # nullValue
         /\ operator # null)
        => /\ display' = String(calculate(previousValue, parseFloat(display),
                                          operator))
           /\ previousValue' = nullValue
           /\ operator' = null
           /\ waitingForOperand' = TRUE
      ]_vars

\* = pressed right after 5 - , with AwaitingNewOperand true, shows 5 - 5
C4_Witness ==
    /\ pressed = "equals"
    /\ pressedIn = <<<<"5">>, NumberOf(5), "-", TRUE>>
    /\ fields = <<<<"0">>, nullValue, null, TRUE>>

\* C5: equals with the pending operator or operand absent leaves the four
\* fields unchanged, so a second press of equals right after a first one
\* changes nothing.
C5_EqualsNoOp ==
    [][ (/\ pressed' = "equals"
         /\ \/ operator = null
            \/ previousValue = nullValue
            \/ pressed = "equals")
        => UNCHANGED fields
      ]_vars

\* = pressed again after the = of a calculation that showed 8
C5_Witness ==
    /\ pressed = "equals"
    /\ pressedIn = <<<<"8">>, nullValue, null, TRUE>>
    /\ fields = pressedIn

\* C6: clear, in any reachable state, yields the initial tuple
\* ("0", absent, absent, false).
C6_ClearResets ==
    [][ pressed' = "clear"
        => /\ display' = <<"0">>
           /\ previousValue' = nullValue
           /\ operator' = null
           /\ waitingForOperand' = FALSE
      ]_vars

\* clear pressed right after 5 +
C6_Witness ==
    /\ pressed = "clear"
    /\ pressedIn = <<<<"5">>, NumberOf(5), "+", TRUE>>
    /\ fields = <<<<"0">>, nullValue, null, FALSE>>

\* C7: in every reachable state the display holds at most 15 digits, the
\* stringified result of an operator or equals calculation included.
C7_DigitCap ==
    Cardinality({i \in 1..Len(display) : IsDigit(display[i])}) <= 15

\* C8: a digit pressed while AwaitingNewOperand is false and the display
\* already holds 15 digits, so that appending would exceed 15 digits not
\* counting the decimal point, is ignored: the four fields are unchanged, and
\* 16 digits typed from the initial state leave the first 15 on the display.
C8_SixteenthDigitIgnored ==
    [][ (/\ pressed' = "number"
         /\ ~waitingForOperand
         /\ DigitCount(display) + 1 > 15)
        => UNCHANGED fields
      ]_vars

\* after fifteen 5s typed from the initial state, a 2 has been pressed
C8_Witness ==
    /\ pressed = "number"
    /\ lastPressedButton = "number-2"
    /\ pressedIn = <<Repeated("5", 15), nullValue, null, FALSE>>
    /\ fields = pressedIn

\* C9: a digit d replaces the display when AwaitingNewOperand is true (the
\* display becomes d and the flag false) and when AwaitingNewOperand is false
\* and the display is "0"; so no typed display longer than one character
\* begins with "0" followed by a digit.
C9_DigitReplaces ==
    /\ [][ (/\ pressed' = "number"
            /\ waitingForOperand \/ display = <<"0">>)
           => /\ \E d \in 0..9 :
                     /\ lastPressedButton' = "number-" \o CharOf(d)
                     /\ display' = <<CharOf(d)>>
              /\ waitingForOperand' = FALSE
         ]_vars
    /\ [](~waitingForOperand /\ Len(display) > 1 /\ display[1] = "0"
             => ~IsDigit(display[2]))

\* a 5 pressed on the display "0" with nothing pending
C9_Witness ==
    /\ pressed = "number"
    /\ lastPressedButton = "number-5"
    /\ pressedIn = <<<<"0">>, nullValue, null, FALSE>>
    /\ fields = <<<<"5">>, nullValue, null, FALSE>>

\* C10: decimal entry is idempotent within a number: with AwaitingNewOperand
\* false and a decimal point on the display it changes none of the four
\* fields, with AwaitingNewOperand true the display becomes "0." and the flag
\* false, otherwise "." is appended; so in every reachable state the display
\* holds at most one decimal point.
C10_DecimalOnce ==
    /\ [][ pressed' = "decimal"
           => IF waitingForOperand
              THEN /\ display' = <<"0", ".">>
                   /\ waitingForOperand' = FALSE
                   /\ UNCHANGED <<previousValue, operator>>
              ELSE IF DotCount(display) > 0
              THEN UNCHANGED fields
              ELSE /\ display' = display \o <<".">>
                   /\ UNCHANGED <<previousValue, operator, waitingForOperand>>
         ]_vars
    /\ [](DotCount(display) <= 1)

\* the decimal point pressed a second time on "2."
C10_Witness ==
    /\ pressed = "decimal"
    /\ pressedIn = <<<<"2", ".">>, nullValue, null, FALSE>>
    /\ fields = pressedIn

\* C11: the display is non-empty in every reachable state: backspace with
\* AwaitingNewOperand false removes the last character of the display, and
\* on a single-character display leaves "0" instead of the empty string.
C11_NeverEmpty ==
    /\ [](display # <<>>)
    /\ [][ (pressed' = "backspace" /\ ~waitingForOperand)
           => /\ display' = IF Len(display) = 1 THEN <<"0">>
                            ELSE SubSeq(display, 1, Len(display) - 1)
              /\ UNCHANGED <<previousValue, operator, waitingForOperand>>
         ]_vars

\* backspace pressed on the typed display "5"
C11_Witness ==
    /\ pressed = "backspace"
    /\ pressedIn = <<<<"5">>, nullValue, null, FALSE>>
    /\ fields = <<<<"0">>, nullValue, null, FALSE>>

\* C12: backspace while AwaitingNewOperand is true, right after an operator
\* or after equals, leaves the four fields unchanged.
C12_BackspaceWhileAwaiting ==
    [][ (pressed' = "backspace" /\ waitingForOperand) => UNCHANGED fields
      ]_vars

\* backspace pressed on the "10" that the = of 5 + 5 left
C12_Witness ==
    /\ pressed = "backspace"
    /\ pressedIn = <<<<"1", "0">>, nullValue, null, TRUE>>
    /\ fields = pressedIn

\* optional "-", digits, optionally "." and digits (or nothing, the decimal
\* point being typed), optionally an exponent
IsDecimalLiteral(text) ==
    LET body == IF text # <<>> /\ Head(text) = "-" THEN Tail(text) ELSE text
        ni   == DigitRun(body)
        r1   == Drop(body, ni)
        r2   == IF r1 # <<>> /\ Head(r1) = "." THEN Tail(r1) ELSE r1
        r3   == Drop(r2, DigitRun(r2))
    IN  /\ ni > 0
        /\ \/ r3 = <<>>
           \/ /\ Len(r3) >= 3
              /\ r3[1] = "e"
              /\ r3[2] \in {"+", "-"}
              /\ DigitRun(Drop(r3, 2)) = Len(r3) - 2

IsInfinityText(text) ==
    text \in {String(Infinity(FALSE)), String(Infinity(TRUE))}

\* C13 as claimed: in every reachable state the display parses as a valid
\* numeric literal (a trailing decimal point allowed), also after a division
\* by zero.
C13_AlwaysNumeric == IsDecimalLiteral(display) \/ IsInfinityText(display)

\* C13 as amended: in every reachable state the display is a valid numeric
\* literal (a trailing decimal point allowed) or the text "NaN", which a
\* calculation without a numeric result, such as 0 / 0, leaves.
C13_NumericOrNaN ==
    \/ IsDecimalLiteral(display)
    \/ IsInfinityText(display)
    \/ display = <<"N", "a", "N">>

\* the = of 0 / 0 has left "NaN"
C13_Witness ==
    /\ pressed = "equals"
    /\ pressedIn = <<<<"0">>, NumberOf(0), "/", FALSE>>
    /\ fields = <<<<"N", "a", "N">>, nullValue, null, TRUE>>

\* the step is an operator or equals press that calculates
Calculates ==
    /\ previousValue # nullValue
    /\ operator # null
    /\ \/ pressed' = "equals"
       \/ pressed' = "operator" /\ ~waitingForOperand

IsSentinel(x) == x.k \in {"inf", "nan"}

\* the four fields hold a text, a number or null, an operator or null, and
\* a flag
WellFormed ==
    /\ display \in Seq({display[i] : i \in 1..Len(display)})
    /\ display # <<>>
    /\ previousValue.k \in {"null", "fin", "inf", "nan"}
    /\ operator \in Operators \cup {null}
    /\ waitingForOperand \in BOOLEAN

\* C14: an operator or equals press that evaluates a pending divide with
\* right operand 0 completes with the sentinel as result (Infinity for a > 0,
\* -Infinity for a < 0, NaN for a = 0) and shows its text; a following
\* operator or equals press calculates with the sentinel as an operand; the
\* fields stay well-formed and digit, decimal, backspace and clear stay
\* enabled.
C14_DivisionByZero ==
    /\ [][ /\ (/\ Calculates
               /\ operator = "/"
               /\ previousValue.k = "fin"
               /\ parseFloat(display).k = "fin"
               /\ IsZero(parseFloat(display)))
              => /\ display' =
                      IF IsZero(previousValue) THEN <<"N", "a", "N">>
                      ELSE IF previousValue.neg
                      THEN <<"-", "I", "n", "f", "i", "n", "i", "t", "y">>
                      ELSE <<"I", "n", "f", "i", "n", "i", "t", "y">>
                 /\ waitingForOperand' = TRUE
                 /\ pressed' = "operator"
                      => /\ IsSentinel(previousValue')
                         /\ display' = String(previousValue')
           /\ (/\ Calculates
               /\ IsSentinel(previousValue) \/ IsSentinel(parseFloat(display)))
              => /\ display' = String(calculate(previousValue,
                                                parseFloat(display), operator))
                 /\ waitingForOperand' = TRUE
         ]_vars
    /\ [](/\ WellFormed
          /\ (IsSentinel(previousValue) \/ IsSentinel(parseFloat(display)))
             => /\ ENABLED handleClear
                /\ ENABLED handleDecimal
                /\ ENABLED handleBackspace
                /\ \A d \in Digits : ENABLED handleNumber(d))

\* after 5 / 0 + left Infinity pending, 2 = has calculated Infinity + 2
C14_Witness ==
    /\ pressed = "equals"
    /\ pressedIn = <<<<"2">>, Infinity(FALSE), "+", FALSE>>
    /\ fields = <<<<"I", "n", "f", "i", "n", "i", "t", "y">>, nullValue, null,
                  TRUE>>

\* the keys of the keyboard mapping table
MappedKeys ==
    {<<CharOf(d)>> : d \in 0..9}
        \cup {<<"+">>, <<"-">>, <<"*">>, <<"/">>, <<"=">>, <<".">>, <<",">>,
              Enter, Backspace, Delete, Escape}

\* the step is an event of the given type dispatched to the mounted
\* calculator
EventStep(type) ==
    /\ phase = "ready"
    /\ mounted /\ mounted'
    /\ event'.type = type

\* the handler of the button the mapping table gives for the key
ButtonFor(key) ==
    /\ \A d \in 0..9 : key = <<CharOf(d)>> => handleNumber(CharOf(d))
    /\ \A op \in Operators : key = <<op>> => handleOperator(op)
    /\ key \in {Enter, <<"=">>} => handleEquals
    /\ key \in {<<".">>, <<",">>} => handleDecimal
    /\ key \in {Backspace, Delete} => handleBackspace
    /\ key = Escape => handleClear

\* C15: the keyboard path and the click path are indistinguishable: a
\* keydown of a key of the mapping table (0-9 digit; + - * / operator;
\* Enter or = equals; . or , decimal; Backspace or Delete backspace; Escape
\* clear) makes the transition of the handler of the corresponding button,
\* and so does the click of that button.
C15_KeyboardAsClick ==
    [][ /\ (EventStep("keydown") /\ event'.key \in MappedKeys)
           => ButtonFor(event'.key)
        /\ EventStep("click")
           => LET button == event'.calls[1]
              IN  /\ button.handler = "handleNumber"
                     => handleNumber(button.arg[1])
                  /\ button.handler = "handleOperator"
                     => handleOperator(button.arg[1])
                  /\ button.handler = "handleEquals" => handleEquals
                  /\ button.handler = "handleDecimal" => handleDecimal
                  /\ button.handler = "handleBackspace" => handleBackspace
                  /\ button.handler = "handleClear" => handleClear
      ]_vars

\* the key "," pressed on the 2 typed after 5 *
C15_Witness ==
    /\ event.type = "keydown"
    /\ event.key = <<",">>
    /\ fields = <<<<"2", ".">>, NumberOf(5), "*", FALSE>>

C17_OneListener ==
    /\ [](/\ Len(listeners) <= 1
          /\ ~mounted => listeners = <<>>)
    /\ [][ (EventStep("keydown") /\ event'.key \in MappedKeys)
           => Len(event'.calls) = 1
         ]_vars

\* the key 5 pressed after the calculator was unmounted: no handler is
\* called
C17_Witness ==
    /\ ~mounted
    /\ listeners = <<>>
    /\ event.type = "keydown"
    /\ event.key = <<"5">>
    /\ event.calls = <<>>

\* C18: a keydown of a key outside the mapping table causes no transition
\* and is not default-prevented, and handleNumber is only ever called with
\* a single digit character.
C18_UnmappedKeysIgnored ==
    [][ EventStep("keydown")
        => /\ event'.key \notin MappedKeys
              => UNCHANGED fields /\ ~event'.prevented
           /\ \A i \in 1..Len(event'.calls) :
                 event'.calls[i].handler = "handleNumber"
                    => /\ Len(event'.calls[i].arg) = 1
                       /\ IsDigit(event'.calls[i].arg[1])
      ]_vars

\* C19: in every reachable state with AwaitingNewOperand false the display
\* consists of digits and at most one decimal point; a result shown after an
\* operator or equals is never extended by a digit or a decimal point: the
\* next digit or decimal entry replaces it entirely.
C19_TypedText ==
    /\ [](~waitingForOperand
            => /\ \A i \in 1..Len(display) :
                      IsDigit(display[i]) \/ display[i] = "."
               /\ DotCount(display) <= 1)
    /\ [][ /\ (pressed' = "number" /\ waitingForOperand)
              => Len(display') = 1 /\ IsDigit(display'[1])
           /\ (pressed' = "decimal" /\ waitingForOperand)
              => display' = <<"0", ".">>
         ]_vars

\* a 2 pressed on the "-3" that the = of 2 - 5 left
C19_Witness ==
    /\ pressed = "number"
    /\ pressedIn = <<<<"-", "3">>, nullValue, null, TRUE>>
    /\ fields = <<<<"2">>, nullValue, null, FALSE>>

\* C20: digit entry, decimal entry and backspace never change the pending
\* operand or operator; only operator, equals and clear do, so a pending
\* operation survives the typing and erasing of the second operand.
C20_TypingKeepsPending ==
    [][ pressed' \in {"number", "decimal", "backspace"}
        => UNCHANGED <<previousValue, operator>>
      ]_vars

\* with 5 + pending, the typed 3 has been erased
C20_Witness ==
    /\ pressed = "backspace"
    /\ pressedIn = <<<<"3">>, NumberOf(5), "+", FALSE>>
    /\ fields = <<<<"0">>, NumberOf(5), "+", FALSE>>

====
